---- MODULE Spec2Model ----
(***************************************************************************)
(* Model of the resume text cleaner: the command-line script               *)
(* parse_resume_script.py (argument check, extract_resume, clean_text,     *)
(* print / error exit).  resume_parser.py holds the same clean_text and    *)
(* the same page join behind a Flask route.                                *)
(*                                                                         *)
(* A Python str is modelled as a sequence of Unicode code points, so the   *)
(* character classes of the regular expressions are the code ranges the    *)
(* re module uses.                                                         *)
(***************************************************************************)
EXTENDS Integers, Sequences, FiniteSets

(***************************************************************************)
(* Code points of the characters the source names.                         *)
(***************************************************************************)
SOH == 1
TAB == 9
LF == 10
SPACE == 32
DQUOTE == 34
APOS == 39
ASTERISK == 42
HYPHEN == 45
DOT == 46
EQUALS == 61
UNDERSCORE == 95
DEL == 127
LSQUO == 8216
RSQUO == 8217
LDQUO == 8220
RDQUO == 8221
ENDASH == 8211
EMDASH == 8212
BULLET == 8226
BLACKCIRCLE == 9679
WHITEBULLET == 9702
BLACKSTAR == 9733
EACUTE == 233

(* [•●◦◆▶➤►★▪] *)
BulletGlyphs == {BULLET, BLACKCIRCLE, WHITEBULLET, 9670, 9654, 10148, 9658,
                 BLACKSTAR, 9642}

(* [\s\-•●◦*] without \s *)
LeadingMarks == {HYPHEN, BULLET, BLACKCIRCLE, WHITEBULLET, ASTERISK}

(* [.,:;!?] *)
Punctuation == {DOT, 44, 58, 59, 33, 63}

(* [-=] *)
SeparatorChars == {HYPHEN, EQUALS}

(* [a-z] and [A-Z] *)
IsLower(c) == c \in 97..122

IsUpper(c) == c \in 65..90

(* \w of a str pattern: alphanumerics and the underscore; the non-ASCII     *)
(* letters are represented by U+00E9.                                       *)
IsWord(c) == \/ c \in 48..57
             \/ IsUpper(c)
             \/ IsLower(c)
             \/ c = UNDERSCORE
             \/ c = EACUTE

(* \s of a str pattern and str.isspace(): \t\n\v\f\r, \x1c..\x1f, space,    *)
(* and the Unicode spaces.                                                  *)
IsSpace(c) == \/ c \in 9..13
              \/ c \in 28..32
              \/ c \in {133, 160, 5760, 8232, 8233, 8239, 8287, 12288}
              \/ c \in 8192..8202

(* [^\x00-\x7F] *)
IsNonAscii(c) == c > 127

(***************************************************************************)
(* Helpers: the end of a maximal run, Python's leftmost greedy match of     *)
(* a one-class "+" pattern.                                                 *)
(***************************************************************************)
RECURSIVE WordRunEnd(_, _)
WordRunEnd(s, i) ==
    IF i <= Len(s) /\ IsWord(s[i]) THEN WordRunEnd(s, i + 1) ELSE i

RECURSIVE NonAsciiRunEnd(_, _)
NonAsciiRunEnd(s, i) ==
    IF i <= Len(s) /\ IsNonAscii(s[i]) THEN NonAsciiRunEnd(s, i + 1) ELSE i

RECURSIVE LeadingRunEnd(_, _)
LeadingRunEnd(s, i) ==
    IF i <= Len(s) /\ (IsSpace(s[i]) \/ s[i] \in LeadingMarks)
    THEN LeadingRunEnd(s, i + 1) ELSE i

RECURSIVE SeparatorRunEnd(_, _)
SeparatorRunEnd(s, i) ==
    IF i <= Len(s) /\ s[i] \in SeparatorChars
    THEN SeparatorRunEnd(s, i + 1) ELSE i

RECURSIVE NewlineRunEnd(_, _)
NewlineRunEnd(s, i) ==
    IF i <= Len(s) /\ s[i] = LF THEN NewlineRunEnd(s, i + 1) ELSE i

RECURSIVE SpaceRunEnd(_, _)
SpaceRunEnd(s, i) ==
    IF i <= Len(s) /\ IsSpace(s[i]) THEN SpaceRunEnd(s, i + 1) ELSE i

(***************************************************************************)
(* The rules of clean_text, one operator per statement.                     *)
(***************************************************************************)

(* re.sub(r"(\w+)-\n(\w+)", r"\1\2", text): matches are found left to       *)
(* right and do not overlap; the search resumes after the second group.     *)
RECURSIVE HyphenMergeFrom(_, _)
HyphenMergeFrom(s, i) ==
    IF i > Len(s) THEN <<>>
    ELSE LET j == WordRunEnd(s, i)
         IN  IF /\ j > i
                /\ j + 2 <= Len(s)
                /\ s[j] = HYPHEN
                /\ s[j + 1] = LF
                /\ IsWord(s[j + 2])
             THEN LET k == WordRunEnd(s, j + 2)
                  IN  SubSeq(s, i, j - 1) \o SubSeq(s, j + 2, k - 1)
                        \o HyphenMergeFrom(s, k)
             ELSE <<s[i]>> \o HyphenMergeFrom(s, i + 1)

HyphenMerge(s) == HyphenMergeFrom(s, 1)

(* re.sub(r"[^\x00-\x7F]+", " ", text) *)
RECURSIVE StripNonAsciiFrom(_, _)
StripNonAsciiFrom(s, i) ==
    IF i > Len(s) THEN <<>>
    ELSE IF IsNonAscii(s[i])
         THEN <<SPACE>> \o StripNonAsciiFrom(s, NonAsciiRunEnd(s, i))
         ELSE <<s[i]>> \o StripNonAsciiFrom(s, i + 1)

StripNonAscii(s) == StripNonAsciiFrom(s, 1)

(* re.sub(r"[•●◦◆▶➤►★▪]", " ", text) *)
ReplaceBulletGlyphs(s) ==
    [i \in 1..Len(s) |-> IF s[i] \in BulletGlyphs THEN SPACE ELSE s[i]]

(* text.replace("“", '"').replace("”", '"').replace("‘", "'")               *)
(*     .replace("’", "'"), then text.replace("–", "-").replace("—", "-")    *)
SmartChar(c) ==
    IF c \in {LDQUO, RDQUO} THEN DQUOTE
    ELSE IF c \in {LSQUO, RSQUO} THEN APOS
    ELSE IF c \in {ENDASH, EMDASH} THEN HYPHEN
    ELSE c

SmartPunctuation(s) == [i \in 1..Len(s) |-> SmartChar(s[i])]

(* re.sub(r"^[\s\-•●◦*]+", "- ", text, flags=re.MULTILINE): "^" holds at    *)
(* the start of the text and after every line break of the text searched.   *)
RECURSIVE LeadingBulletsFrom(_, _)
LeadingBulletsFrom(s, i) ==
    IF i > Len(s) THEN <<>>
    ELSE IF /\ (i = 1 \/ s[i - 1] = LF)
            /\ LeadingRunEnd(s, i) > i
         THEN <<HYPHEN, SPACE>> \o LeadingBulletsFrom(s, LeadingRunEnd(s, i))
         ELSE <<s[i]>> \o LeadingBulletsFrom(s, i + 1)

LeadingBullets(s) == LeadingBulletsFrom(s, 1)

(* re.sub(r"(?<=[a-z])(?=[A-Z])", " ", text) *)
RECURSIVE CamelSplitFrom(_, _)
CamelSplitFrom(s, i) ==
    IF i > Len(s) THEN <<>>
    ELSE IF i < Len(s) /\ IsLower(s[i]) /\ IsUpper(s[i + 1])
         THEN <<s[i], SPACE>> \o CamelSplitFrom(s, i + 1)
         ELSE <<s[i]>> \o CamelSplitFrom(s, i + 1)

CamelSplit(s) == CamelSplitFrom(s, 1)

(* re.sub(r"([.,:;!?])(?=\S)", r"\1 ", text) *)
RECURSIVE PunctSpacingFrom(_, _)
PunctSpacingFrom(s, i) ==
    IF i > Len(s) THEN <<>>
    ELSE IF s[i] \in Punctuation /\ i < Len(s) /\ ~IsSpace(s[i + 1])
         THEN <<s[i], SPACE>> \o PunctSpacingFrom(s, i + 1)
         ELSE <<s[i]>> \o PunctSpacingFrom(s, i + 1)

(* The rule with the lookahead (?=\w) in place of (?=\S). *)
RECURSIVE PunctSpacingBeforeWordFrom(_, _)
PunctSpacingBeforeWordFrom(s, i) ==
    IF i > Len(s) THEN <<>>
    ELSE IF s[i] \in Punctuation /\ i < Len(s) /\ IsWord(s[i + 1])
         THEN <<s[i], SPACE>> \o PunctSpacingBeforeWordFrom(s, i + 1)
         ELSE <<s[i]>> \o PunctSpacingBeforeWordFrom(s, i + 1)

PunctSpacingBeforeWord(s) == PunctSpacingBeforeWordFrom(s, 1)

PunctSpacing(s) == PunctSpacingFrom(s, 1)

(* re.sub(r"[-=]{2,}", " ", text) *)
RECURSIVE SeparatorRunsFrom(_, _)
SeparatorRunsFrom(s, i) ==
    IF i > Len(s) THEN <<>>
    ELSE IF SeparatorRunEnd(s, i) >= i + 2
         THEN <<SPACE>> \o SeparatorRunsFrom(s, SeparatorRunEnd(s, i))
         ELSE <<s[i]>> \o SeparatorRunsFrom(s, i + 1)

SeparatorRuns(s) == SeparatorRunsFrom(s, 1)

(* re.sub(r"\n{2,}", "\n", text) *)
RECURSIVE BlankLinesFrom(_, _)
BlankLinesFrom(s, i) ==
    IF i > Len(s) THEN <<>>
    ELSE IF NewlineRunEnd(s, i) >= i + 2
         THEN <<LF>> \o BlankLinesFrom(s, NewlineRunEnd(s, i))
         ELSE <<s[i]>> \o BlankLinesFrom(s, i + 1)

BlankLines(s) == BlankLinesFrom(s, 1)

(* re.sub(r"\s+", " ", text) *)
RECURSIVE CollapseWhitespaceFrom(_, _)
CollapseWhitespaceFrom(s, i) ==
    IF i > Len(s) THEN <<>>
    ELSE IF IsSpace(s[i])
         THEN <<SPACE>> \o CollapseWhitespaceFrom(s, SpaceRunEnd(s, i))
         ELSE <<s[i]>> \o CollapseWhitespaceFrom(s, i + 1)

(* The rule with "" in place of " " as the replacement. *)
DeleteWhitespace(s) == SelectSeq(s, LAMBDA c : ~IsSpace(c))

CollapseWhitespace(s) == CollapseWhitespaceFrom(s, 1)

(* text.strip() *)
RECURSIVE LastNonSpace(_, _)
LastNonSpace(s, i) ==
    IF i >= 1 /\ IsSpace(s[i]) THEN LastNonSpace(s, i - 1) ELSE i

(* text.rstrip() in place of text.strip() *)
StripRight(s) == SubSeq(s, 1, LastNonSpace(s, Len(s)))

Strip(s) == SubSeq(s, SpaceRunEnd(s, 1), LastNonSpace(s, Len(s)))

(* clean_text as a whole *)
CleanText(s) ==
    Strip(CollapseWhitespace(BlankLines(SeparatorRuns(PunctSpacing(CamelSplit(
        LeadingBullets(SmartPunctuation(ReplaceBulletGlyphs(StripNonAscii(
            HyphenMerge(s)))))))))))

(***************************************************************************)
(* Bounds of the model and the inputs drawn within them.                    *)
(***************************************************************************)
MaxLen == 4
MaxGlyphLen == 3
MaxWrapLen == 7
MaxPages == 2

(* a B - = \n space \t . * • \x01: one character of each class the rules   *)
(* tell apart                                                               *)
Alphabet == {97, 66, HYPHEN, EQUALS, LF, SPACE, TAB, DOT, ASTERISK, BULLET,
             SOH}

(* a 9 space \n " ' • ★ “ ’ — é \x01 \x7f: quotes, glyphs, controls *)
GlyphAlphabet == {97, 57, SPACE, LF, DQUOTE, APOS, BULLET, BLACKSTAR, LDQUO,
                  RSQUO, EMDASH, EACUTE, SOH, DEL}

(* the characters of a word wrapped over lines: a - \n *)
WrapAlphabet == {97, HYPHEN, LF}

Strings(A, n) == UNION {[1..k -> A] : k \in 0..n}

(* What page.extract_text() returns: None, or a str. *)
NonePage == [none |-> TRUE, str |-> <<>>]

TextPage(s) == [none |-> FALSE, str |-> s]

(* A file pdfplumber opens, with its pages; or one it raises on. *)
Document(ps) == [error |-> "", pages |-> ps]

Unreadable(e) == [error |-> e, pages |-> <<>>]

BadFiles == {Unreadable("No such file or directory"),
             Unreadable("No /Root object! - Is this really a PDF?")}

(* "Experience\n•Software-\nEngineer" *)
ScenarioPage1 ==
    <<69, 120, 112, 101, 114, 105, 101, 110, 99, 101, 10, 8226, 83, 111,
    102, 116, 119, 97, 114, 101, 45, 10, 69, 110, 103, 105, 110, 101, 101,
    114>>

(* "Education\n\n\nBA  Computer   Science" *)
ScenarioPage2 ==
    <<69, 100, 117, 99, 97, 116, 105, 111, 110, 10, 10, 10, 66, 65, 32, 32,
    67, 111, 109, 112, 117, 116, 101, 114, 32, 32, 32, 83, 99, 105, 101,
    110, 99, 101>>

(* "Experience - Software Engineer Education BA Computer Science" *)
ScenarioExpected ==
    <<69, 120, 112, 101, 114, 105, 101, 110, 99, 101, 32, 45, 32, 83, 111,
    102, 116, 119, 97, 114, 101, 32, 69, 110, 103, 105, 110, 101, 101, 114,
    32, 69, 100, 117, 99, 97, 116, 105, 111, 110, 32, 66, 65, 32, 67, 111,
    109, 112, 117, 116, 101, 114, 32, 83, 99, 105, 101, 110, 99, 101>>

ScenarioDoc == Document(<<TextPage(ScenarioPage1), TextPage(ScenarioPage2)>>)

(* "inter-\nnational" and "international" *)
InterNational == <<105, 110, 116, 101, 114, 45, 10, 110, 97, 116, 105, 111, 110, 97,
    108>>

International == <<105, 110, 116, 101, 114, 110, 97, 116, 105, 111, 110, 97, 108>>

(* "“Quoted” and ‘apostrophe’s’" *)
QuotedText ==
    <<8220, 81, 117, 111, 116, 101, 100, 8221, 32, 97, 110, 100, 32, 8216,
    97, 112, 111, 115, 116, 114, 111, 112, 104, 101, 8217, 115, 8217>>

(* "\"Quoted\" and 'apostrophe's'" *)
QuotedExpected ==
    <<34, 81, 117, 111, 116, 101, 100, 34, 32, 97, 110, 100, 32, 39, 97,
    112, 111, 115, 116, 114, 111, 112, 104, 101, 39, 115, 39>>

(* "Skills:Python,Go" and "Skills: Python, Go" *)
SkillsText == <<83, 107, 105, 108, 108, 115, 58, 80, 121, 116, 104, 111, 110, 44, 71,
    111>>

SkillsExpected ==
    <<83, 107, 105, 108, 108, 115, 58, 32, 80, 121, 116, 104, 111, 110, 44,
    32, 71, 111>>

(* Every page without text: None or "". *)
EmptyDocs ==
    {Document(ps) : ps \in UNION {[1..n -> {NonePage, TextPage(<<>>)}] : n \in 0..MaxPages}}

GeneralDocs ==
    {Document(<<TextPage(s)>>) : s \in Strings(Alphabet, MaxLen)}
        \cup EmptyDocs
        \cup {ScenarioDoc, Document(<<TextPage(QuotedText)>>),
              Document(<<TextPage(SkillsText)>>)}

GlyphDocs ==
    {Document(<<TextPage(s)>>) : s \in Strings(GlyphAlphabet, MaxGlyphLen)}
        \cup {Document(<<TextPage(QuotedText)>>)}

WrapDocs ==
    {Document(<<TextPage(s)>>) : s \in Strings(WrapAlphabet, MaxWrapLen)}
        \cup {Document(<<TextPage(InterNational)>>)}

(* sys.argv *)
ArgvChoices == {<<"parse_resume_script.py">>,
                <<"parse_resume_script.py", "resume.pdf">>}

(***************************************************************************)
(* State of one run of the script.                                          *)
(***************************************************************************)
VARIABLES
    argv,      \* sys.argv
    doc,       \* the file at the path given
    pc,        \* the statement the run is at
    text,      \* the local "text" of extract_resume and clean_text
    exc,       \* the exception in flight, "" when none
    stdout,    \* lines printed to sys.stdout
    stderr,    \* lines printed to sys.stderr
    exitCode   \* the exit status once pc = "exited"

vars == <<argv, doc, pc, text, exc, stdout, stderr, exitCode>>

InitWith(docs) ==
    /\ argv \in ArgvChoices
    /\ doc \in docs \cup BadFiles
    /\ pc = "main"
    /\ text = <<>>
    /\ exc = ""
    /\ stdout = <<>>
    /\ stderr = <<>>
    /\ exitCode = 0

Init == InitWith(GeneralDocs)

InitGlyph == InitWith(GlyphDocs)

InitWrap == InitWith(WrapDocs)

(* "\n".join(page.extract_text() or "" for page in pdf.pages) *)
PageText(p) == IF p.none \/ p.str = <<>> THEN <<>> ELSE p.str

RECURSIVE JoinFrom(_, _)
JoinFrom(ps, i) ==
    IF i > Len(ps) THEN <<>>
    ELSE IF i = Len(ps) THEN PageText(ps[i])
    ELSE PageText(ps[i]) \o <<LF>> \o JoinFrom(ps, i + 1)

Join(ps) == JoinFrom(ps, 1)

(* print(..., file=...) of a message: the text before the description and  *)
(* the description formatted into it.                                       *)
UsageMessage == [prefix |-> "Usage: ", rest |-> "python parse_resume.py <file_path>"]

ErrorMessage(e) == [prefix |-> "Error: ", rest |-> e]

(* if len(sys.argv) < 2: print usage to stderr; sys.exit(1) *)
UsageExit ==
    /\ pc = "main"
    /\ Len(argv) < 2
    /\ stderr' = Append(stderr, UsageMessage)
    /\ exitCode' = 1
    /\ pc' = "exited"
    /\ UNCHANGED <<argv, doc, text, exc, stdout>>

(* file_path = sys.argv[1]; try: result = extract_resume(file_path) *)
CallExtract ==
    /\ pc = "main"
    /\ Len(argv) >= 2
    /\ pc' = "open"
    /\ UNCHANGED <<argv, doc, text, exc, stdout, stderr, exitCode>>

(* pdfplumber.open(file_path) raises *)
OpenRaises ==
    /\ pc = "open"
    /\ doc.error # ""
    /\ exc' = doc.error
    /\ pc' = "except"
    /\ UNCHANGED <<argv, doc, text, stdout, stderr, exitCode>>

(* with pdfplumber.open(file_path) as pdf: text = "\n".join(...) *)
JoinPages ==
    /\ pc = "open"
    /\ doc.error = ""
    /\ text' = Join(doc.pages)
    /\ pc' = "rule1"
    /\ UNCHANGED <<argv, doc, exc, stdout, stderr, exitCode>>

(* One statement of clean_text: text = rule(text) *)
Rewrite(at, result, next) ==
    /\ pc = at
    /\ text' = result
    /\ pc' = next
    /\ UNCHANGED <<argv, doc, exc, stdout, stderr, exitCode>>

MergeHyphens == Rewrite("rule1", HyphenMerge(text), "rule2")

RemoveNonAscii == Rewrite("rule2", StripNonAscii(text), "rule3")

RemoveBulletGlyphs == Rewrite("rule3", ReplaceBulletGlyphs(text), "rule4")

ConvertSmartPunctuation == Rewrite("rule4", SmartPunctuation(text), "rule5")

NormalizeLeadingBullets == Rewrite("rule5", LeadingBullets(text), "rule6")

SplitCamelCase == Rewrite("rule6", CamelSplit(text), "rule7")

SpacePunctuation == Rewrite("rule7", PunctSpacing(text), "rule8")

SquashSeparators == Rewrite("rule8", SeparatorRuns(text), "rule9")

SquashBlankLines == Rewrite("rule9", BlankLines(text), "rule10")

NormalizeWhitespace == Rewrite("rule10", CollapseWhitespace(text), "rule11")

(* return text.strip() *)
ReturnStripped == Rewrite("rule11", Strip(text), "print")

(* print(result); the script ends with status 0 *)
PrintResult ==
    /\ pc = "print"
    /\ stdout' = Append(stdout, text)
    /\ exitCode' = 0
    /\ pc' = "exited"
    /\ UNCHANGED <<argv, doc, text, exc, stderr>>

(* The handler without its sys.exit(1): the script ends with status 0. *)
HandleExceptionNoExit ==
    /\ pc = "except"
    /\ stderr' = Append(stderr, ErrorMessage(exc))
    /\ pc' = "exited"
    /\ UNCHANGED <<argv, doc, text, exc, stdout, exitCode>>

(* except Exception as e: print(f"Error: {e}", file=sys.stderr); sys.exit(1) *)
HandleException ==
    /\ pc = "except"
    /\ stderr' = Append(stderr, ErrorMessage(exc))
    /\ exitCode' = 1
    /\ pc' = "exited"
    /\ UNCHANGED <<argv, doc, text, exc, stdout>>

Next ==
    \/ UsageExit
    \/ CallExtract
    \/ OpenRaises
    \/ JoinPages
    \/ MergeHyphens
    \/ RemoveNonAscii
    \/ RemoveBulletGlyphs
    \/ ConvertSmartPunctuation
    \/ NormalizeLeadingBullets
    \/ SplitCamelCase
    \/ SpacePunctuation
    \/ SquashSeparators
    \/ SquashBlankLines
    \/ NormalizeWhitespace
    \/ ReturnStripped
    \/ PrintResult
    \/ HandleException

Spec == Init /\ [][Next]_vars

SpecGlyph == InitGlyph /\ [][Next]_vars

SpecWrap == InitWrap /\ [][Next]_vars

(***************************************************************************)
(* Properties.                                                              *)
(***************************************************************************)

(* clean_text has returned: text holds its result, Raw was its argument. *)
Cleaned == pc = "print"

Raw == Join(doc.pages)

Count(s, S) == Cardinality({i \in 1..Len(s) : s[i] \in S})

(* Rules 6 to 11 of the pipeline: from the camel-case split to the trim. *)
Rules6To11(s) ==
    Strip(CollapseWhitespace(BlankLines(SeparatorRuns(PunctSpacing(
        CamelSplit(s))))))

(* C1: the result of clean_text holds no control character and nothing     *)
(* outside printable 7-bit ASCII (0x20..0x7E), ASCII control characters     *)
(* such as 0x01 and 0x7F of the input included.                             *)
C1_PrintableAsciiOnly ==
    Cleaned => \A i \in 1..Len(text) : text[i] \in 32..126

(* C2: the two pages of the end-to-end scenario clean to exactly           *)
(* "Experience - Software Engineer Education BA Computer Science", and a    *)
(* run of blank lines or an indentation between text lines adds no "-":     *)
(* a text of ASCII word characters, spaces, tabs and line breaks that       *)
(* begins with a word character cleans to a text without a hyphen.          *)
C2_EndToEnd ==
    Cleaned =>
        /\ doc = ScenarioDoc => text = ScenarioExpected
        /\ (/\ Raw # <<>>
            /\ IsWord(Raw[1])
            /\ \A i \in 1..Len(Raw) :
                   \/ IsWord(Raw[i]) /\ ~IsNonAscii(Raw[i])
                   \/ Raw[i] \in {SPACE, TAB, LF})
           => Count(text, {HYPHEN}) = 0

(* C3: every curly double quote of the input appears in the output as a     *)
(* straight double quote and every curly single quote as an apostrophe,     *)
(* nothing else altered: the output has one straight mark per straight or   *)
(* curly mark of the input, and the quoted example keeps its text.          *)
C3_SmartPunctuationStraightened ==
    Cleaned =>
        /\ Count(text, {DQUOTE}) = Count(Raw, {DQUOTE, LDQUO, RDQUO})
        /\ Count(text, {APOS}) = Count(Raw, {APOS, LSQUO, RSQUO})
        /\ Raw = QuotedText => text = QuotedExpected

(* C4: an input of only whitespace and bullet glyphs, the empty input       *)
(* included, cleans to the empty string.                                    *)
C4_BlankInputGivesEmpty ==
    (Cleaned /\ \A i \in 1..Len(Raw) : IsSpace(Raw[i]) \/ Raw[i] \in BulletGlyphs)
        => text = <<>>

(* C5: for every number of pages, when every page yields no text (None or   *)
(* ""), extract_resume returns the empty string.                            *)
C5_EmptyExtractionGivesEmpty ==
    (Cleaned /\ \A i \in 1..Len(doc.pages) : PageText(doc.pages[i]) = <<>>)
        => text = <<>>

(* C6, as claimed: cleaning an already cleaned text changes nothing,        *)
(* clean_text(clean_text(s)) = clean_text(s).                               *)
C6_FullPipelineIdempotent ==
    Cleaned => CleanText(text) = text

(* C6, as amended: rules 6 to 11 leave an already cleaned text unchanged,   *)
(* and the full pipeline leaves it unchanged when it does not begin with    *)
(* "-" or "*" (the marks rule 5 rewrites at a line start).                  *)
C6_CleanedTextStable ==
    Cleaned =>
        /\ Rules6To11(text) = text
        /\ (text = <<>> \/ text[1] \notin {HYPHEN, ASTERISK})
               => CleanText(text) = text

(* C6 witness: a cleaned text that rules 6 to 11 made longer than the       *)
(* input and that begins with neither mark.                                 *)
C6_Witness ==
    /\ Cleaned
    /\ Len(text) > Len(Raw)
    /\ text[1] \notin {HYPHEN, ASTERISK}

(* C7: rule 1 rewrites every "word - line break word", so its result holds  *)
(* no word character followed by a hyphen, a line break and a word          *)
(* character (consecutive wrapped fragments included), and                  *)
(* "inter-\nnational" cleans to "international".                            *)
C7_NoWrappedHyphenLeft ==
    /\ pc = "rule2" =>
          \A i \in 1..Len(text) :
              ~(/\ i + 3 <= Len(text)
                /\ IsWord(text[i])
                /\ text[i + 1] = HYPHEN
                /\ text[i + 2] = LF
                /\ IsWord(text[i + 3]))
    /\ (Cleaned /\ Raw = InterNational) => text = International

(* C8, as claimed: every failure of the script (no file path, or            *)
(* extract_resume raising) exits with status 1 and one "Error: ..." line on *)
(* stderr and nothing on stdout; status 0 comes only with success and the   *)
(* cleaned text on stdout.                                                  *)
C8_ErrorMessageOnEveryFailure ==
    pc = "exited" =>
        /\ (Len(argv) < 2 \/ doc.error # "") =>
              /\ exitCode = 1
              /\ Len(stderr) = 1
              /\ stderr[1].prefix = "Error: "
              /\ stdout = <<>>
        /\ exitCode = 0 =>
              /\ Len(argv) >= 2
              /\ doc.error = ""
              /\ stdout = <<CleanText(Raw)>>

(* C8, as amended: a missing file path exits with status 1 and the usage    *)
(* line on stderr; extract_resume raising exits with status 1 and           *)
(* "Error: <description>" on stderr; both write nothing to stdout; status 0 *)
(* comes only with success, the cleaned text on stdout and nothing on       *)
(* stderr.                                                                  *)
C8_CliContract ==
    pc = "exited" =>
        /\ Len(argv) < 2 =>
              /\ exitCode = 1
              /\ stderr = <<[prefix |-> "Usage: ",
                             rest |-> "python parse_resume.py <file_path>"]>>
              /\ stdout = <<>>
        /\ (Len(argv) >= 2 /\ doc.error # "") =>
              /\ exitCode = 1
              /\ stderr = <<[prefix |-> "Error: ", rest |-> doc.error]>>
              /\ stdout = <<>>
        /\ exitCode = 0 =>
              /\ Len(argv) >= 2
              /\ doc.error = ""
              /\ stdout = <<CleanText(Raw)>>
              /\ stderr = <<>>

(* C8 witness: the script has exited for want of a file path. *)
C8_Witness ==
    /\ pc = "exited"
    /\ Len(argv) < 2
    /\ exitCode = 1
    /\ Len(stderr) = 1

(* C9: the cleaned text holds no whitespace but the ASCII space, never two  *)
(* spaces in a row, and neither begins nor ends with a space.               *)
C9_WhitespaceInvariant ==
    Cleaned =>
        /\ \A i \in 1..Len(text) : IsSpace(text[i]) => text[i] = SPACE
        /\ \A i \in 1..(Len(text) - 1) : ~(text[i] = SPACE /\ text[i + 1] = SPACE)
        /\ text # <<>> => (text[1] # SPACE /\ text[Len(text)] # SPACE)

(* C9 witness: an input with a tab or line break inside and whitespace at   *)
(* its end, cleaned to a text with a space in it.                           *)
C9_Witness ==
    /\ Cleaned
    /\ Count(Raw, {TAB, LF}) > 0
    /\ IsSpace(Raw[Len(Raw)])
    /\ Count(text, {SPACE}) > 0

(* C10: in the cleaned text every . , : ; ! ? is the last character or is   *)
(* followed by exactly one space, and "Skills:Python,Go" cleans to          *)
(* "Skills: Python, Go".                                                    *)
C10_PunctuationSpacing ==
    Cleaned =>
        /\ \A i \in 1..Len(text) :
              text[i] \in Punctuation =>
                  \/ i = Len(text)
                  \/ /\ text[i + 1] = SPACE
                     /\ i + 2 <= Len(text) => text[i + 2] # SPACE
        /\ Raw = SkillsText => text = SkillsExpected

(* C10 witness: a punctuation character of the input followed at once by   *)
(* a non-space character, and one followed by whitespace, both cleaned.     *)
C10_Witness ==
    /\ Cleaned
    /\ \E i \in 1..(Len(Raw) - 1) : Raw[i] \in Punctuation /\ ~IsSpace(Raw[i + 1])
    /\ \E i \in 1..(Len(text) - 1) : text[i] \in Punctuation /\ text[i + 1] = SPACE

====
